---- MODULE Spec2Model ----
(* A model of scripts/server.py: the model-cache resolver, the start-up     *)
(* sequence of the process, and the three HTTP handlers.  Text is modelled  *)
(* as a sequence of one-character strings, a Python dict as a function     *)
(* whose domain is the set of keys that are present, and a float as an      *)
(* integer number of tenths.                                                *)
EXTENDS Integers, Sequences, FiniteSets, TLC

\* ------------------------------------------------------------------ bounds
MaxMsgs == 2
MaxTail == 1
MaxRuns == 2
MaxPromptTokens == 2
MaxNewTokens == 1

\* ------------------------------------------------------- program constants
MIN_MAX_TOKENS == 16
DEFAULT_MAX_TOKENS == 128
DEFAULT_TEMPERATURE == 7
DEFAULT_TOP_P == 8

DEFAULT_ROLE == <<"u", "s", "e", "r">>
ASSISTANT_MARKER == <<"a", "s", "s", "i", "s", "t", "a", "n", "t", ":">>
ASSISTANT_ROLE == <<"a", "s", "s", "i", "s", "t", "a", "n", "t">>
NEWLINE == "\n"
MODEL_REPO == "sshleifer/tiny-gpt2"

\* Characters str.strip() removes (the ones the model's alphabet has).
Whitespace == {" ", "\n", "\t"}

\* --------------------------------------------------------- text primitives
\* An optional value: the empty tuple, or a one-element tuple.
Opt(S) == {<<>>} \cup {<<x>> : x \in S}

RECURSIVE Join(_, _)
\* sep.join(parts), sep a single character
Join(parts, sep) ==
    IF Len(parts) = 0 THEN <<>>
    ELSE IF Len(parts) = 1 THEN parts[1]
    ELSE parts[1] \o <<sep>> \o Join(Tail(parts), sep)

RECURSIVE lstrip(_)
lstrip(s) ==
    IF Len(s) > 0 /\ s[1] \in Whitespace THEN lstrip(Tail(s)) ELSE s

RECURSIVE rstrip(_)
rstrip(s) ==
    IF Len(s) > 0 /\ s[Len(s)] \in Whitespace
    THEN rstrip(SubSeq(s, 1, Len(s) - 1)) ELSE s

\* str.strip()
strip(s) == rstrip(lstrip(s))

\* s[n:]
SliceFrom(s, n) == IF n >= Len(s) THEN <<>> ELSE SubSeq(s, n + 1, Len(s))

\* dict.get(key, default)
DictGet(d, key, default) == IF key \in DOMAIN d THEN d[key] ELSE default

\* ------------------------------------------------------------ build_prompt
\* f"{role}: {content}" for one message
FormatMessage(msg) ==
    DictGet(msg, "role", DEFAULT_ROLE) \o <<":", " ">> \o DictGet(msg, "content", <<>>)

RECURSIVE Transcript(_)
\* the list the loop of build_prompt appends to, one entry per message
Transcript(messages) ==
    IF Len(messages) = 0 THEN <<>>
    ELSE <<FormatMessage(messages[1])>> \o Transcript(Tail(messages))

\* build_prompt with a newline after the assistant marker
build_prompt_trailing_newline(messages) ==
    Join(Append(Transcript(messages), ASSISTANT_MARKER), NEWLINE) \o <<NEWLINE>>

build_prompt(messages) ==
    Join(Append(Transcript(messages), ASSISTANT_MARKER), NEWLINE)

\* ------------------------------------------- completion text and the usage
\* completion = decoded[len(prompt):].strip() or decoded
ExtractCompletion_no_strip(decoded, prompt) ==
    LET rest == SliceFrom(decoded, Len(prompt))
    IN  IF Len(rest) > 0 THEN rest ELSE decoded

ExtractCompletion(decoded, prompt) ==
    LET rest == strip(SliceFrom(decoded, Len(prompt)))
    IN  IF Len(rest) > 0 THEN rest ELSE decoded

Max(a, b) == IF a >= b THEN a ELSE b

Usage(promptLen, outputLen) ==
    [prompt_tokens |-> promptLen,
     completion_tokens |-> Max(0, outputLen - promptLen),
     total_tokens |-> outputLen]

\* max(16, int(payload.get("max_tokens", 128))), given the converted value
\* the requested value, unfloored
MaxNewTokensArg_no_floor(requested) == requested

MaxNewTokensArg(requested) == Max(MIN_MAX_TOKENS, requested)

\* ------------------------------------------------- the model-cache on disk
REPO_FILES == {"config.json", "pytorch_model.bin"}
TARGET_DIR == "models/sshleifer_tiny-gpt2"

\* ------------------------------------------------------- request contents
HI == <<"H", "i">>
TWO_LINES == <<"a", "\n", "b">>
SYSTEM_ROLE == <<"s", "y", "s">>

EmptyDict == [k \in {} |-> <<>>]

\* The message dicts a client may send: keys may be missing, and a content
\* may span several lines (as the second request of test_client.py does).
MessageSet ==
    { EmptyDict,
      [role |-> SYSTEM_ROLE, content |-> HI],
      [k \in {"content"} |-> TWO_LINES] }

MessageLists == UNION { [1..n -> MessageSet] : n \in 0..MaxMsgs }

\* A JSON scalar: a number, or a string that is not a numeral.
Num(v) == [t |-> "num", v |-> v]
NotANumber == [t |-> "str", v |-> 0]

MaxTokensValues == {Num(1), Num(200), NotANumber}
TemperatureValues == {Num(0)}
TopPValues == {Num(9)}

\* The JSON object with the given optional members.
MakePayload(m, mt, t, p) ==
    LET present == { k \in {"messages", "max_tokens", "temperature", "top_p"} :
                       \/ k = "messages" /\ Len(m) = 1
                       \/ k = "max_tokens" /\ Len(mt) = 1
                       \/ k = "temperature" /\ Len(t) = 1
                       \/ k = "top_p" /\ Len(p) = 1 }
    IN  [k \in present |->
            CASE k = "messages" -> m[1]
              [] k = "max_tokens" -> mt[1]
              [] k = "temperature" -> t[1]
              [] OTHER -> p[1]]

\* What a client can POST: a body that is not JSON, a JSON value that is not
\* an object, or a JSON object.
Requests ==
    { [kind |-> "malformed", payload |-> EmptyDict],
      [kind |-> "array", payload |-> EmptyDict] }
    \cup
    { [kind |-> "object", payload |-> MakePayload(m, mt, t, p)] :
        m \in Opt(MessageLists), mt \in Opt(MaxTokensValues),
        t \in Opt(TemperatureValues), p \in Opt(TopPValues) }

\* ------------------------------------------------ what the runtime may do
\* Texts of up to MaxTail characters that may follow the head of the decoded
\* output.
Tails == UNION { [1..n -> {"a", " ", "\n"}] : n \in 0..MaxTail }

\* The tokenizer or generate() raises, or generate() returns a sequence of
\* n + new tokens for a prompt of n tokens, which decodes to head \o tail.
\* The token counts and the decoded text are varied one at a time: the code
\* computes the usage from the counts alone and the completion from the
\* text alone.
\* The head is the prompt itself ("prompt"), the prompt less its last
\* character ("short": decoding did not round-trip), or nothing ("none").
RuntimeOutcomes ==
    { [fault |-> f, n |-> 0, new |-> 0, head |-> "none", tail |-> <<>>] :
        f \in {"tokenize", "generate"} }
    \cup
    { [fault |-> "none", n |-> n, new |-> d, head |-> "prompt", tail |-> <<"a">>] :
        n \in 1..MaxPromptTokens, d \in (-1)..MaxNewTokens }
    \cup
    { [fault |-> "none", n |-> 1, new |-> 1, head |-> h, tail |-> tl] :
        h \in {"prompt", "short", "none"}, tl \in Tails }

Decoded(rt, prompt) ==
    (CASE rt.head = "prompt" -> prompt
       [] rt.head = "short" -> SubSeq(prompt, 1, Len(prompt) - 1)
       [] OTHER -> <<>>) \o rt.tail

\* --------------------------------------------------------------- the state
VARIABLES
    pc,         \* where the process is: start, resolved, ready, serving, dead, exited
    run,        \* which run of the process this is
    dirExists,  \* the cache directory exists
    dirFiles,   \* the files in the cache directory
    ensureLog,  \* one record per call of ensure_model, over all runs
    fetches,    \* calls of snapshot_download in this run
    loads,      \* loads of tokenizer and model in this run
    faulted,    \* a chat-completion request of this run ended in a fault
    op,         \* the request whose response is in flight, or "none"
    request,    \* that request
    status,     \* the HTTP status of the response in flight
    body,       \* its JSON body: none, or one
    call        \* what the handler did with the runtime

vars == <<pc, run, dirExists, dirFiles, ensureLog, fetches, loads, faulted,
          op, request, status, body, call>>

NoRequest == [kind |-> "none", payload |-> EmptyDict]
NoCall == [tokCalls |-> 0, genCalls |-> 0, prompt |-> <<>>, args |-> <<>>,
           decoded |-> <<>>]

Idle ==
    /\ op = "none"
    /\ request = NoRequest
    /\ status = 0
    /\ body = <<>>
    /\ call = NoCall

\* The process is started with the cache directory absent, empty, holding a
\* partial download, or populated.
Init ==
    /\ pc = "start"
    /\ run = 1
    /\ \E d \in {"absent", "empty", "partial", "full"} :
          /\ dirExists = (d # "absent")
          /\ dirFiles = (CASE d = "partial" -> {"config.json"}
                           [] d = "full" -> REPO_FILES
                           [] OTHER -> {})
    /\ ensureLog = <<>>
    /\ fetches = 0
    /\ loads = 0
    /\ faulted = FALSE
    /\ Idle

\* no response is in flight after the step
Clear ==
    /\ op' = "none"
    /\ request' = NoRequest
    /\ status' = 0
    /\ body' = <<>>
    /\ call' = NoCall

processVars == <<pc, run, dirExists, dirFiles, ensureLog, fetches, loads>>
exchangeVars == <<op, request, status, body, call>>

\* ------------------------------------------------------------ ensure_model
\* ensure_model without the early return on a non-empty directory
EnsureModel_always_fetch ==
    /\ pc = "start"
    /\ dirExists' = TRUE
    /\ fetches' = fetches + 1
    /\ dirFiles' = dirFiles \cup REPO_FILES
    /\ pc' = "resolved"
    /\ ensureLog' = Append(ensureLog,
          [dir |-> TARGET_DIR, fetched |-> TRUE, returned |-> TRUE,
           result |-> TARGET_DIR, changed |-> (dirFiles # REPO_FILES)])
    /\ UNCHANGED <<run, loads, faulted>>
    /\ UNCHANGED exchangeVars

EnsureModel ==
    /\ pc = "start"
    /\ dirExists' = TRUE
    /\ IF dirFiles # {}
       THEN /\ pc' = "resolved"
            /\ ensureLog' = Append(ensureLog,
                  [dir |-> TARGET_DIR, fetched |-> FALSE, returned |-> TRUE,
                   result |-> TARGET_DIR, changed |-> ~dirExists])
            /\ UNCHANGED <<dirFiles, fetches>>
       ELSE /\ fetches' = fetches + 1
            /\ \/ /\ dirFiles' = REPO_FILES
                  /\ pc' = "resolved"
                  /\ ensureLog' = Append(ensureLog,
                        [dir |-> TARGET_DIR, fetched |-> TRUE, returned |-> TRUE,
                         result |-> TARGET_DIR, changed |-> TRUE])
               \/ /\ \E got \in (SUBSET REPO_FILES) \ {REPO_FILES} :
                        /\ dirFiles' = got
                        /\ ensureLog' = Append(ensureLog,
                              [dir |-> TARGET_DIR, fetched |-> TRUE,
                               returned |-> FALSE, result |-> "",
                               changed |-> (~dirExists \/ got # {})])
                  /\ pc' = "dead"
    /\ UNCHANGED <<run, loads, faulted>>
    /\ UNCHANGED exchangeVars

\* ------------------------------------- create_app after the cache resolver
LoadRuntime ==
    /\ pc = "resolved"
    /\ \/ /\ REPO_FILES \subseteq dirFiles
          /\ loads' = loads + 1
          /\ pc' = "ready"
       \/ /\ pc' = "dead"
          /\ UNCHANGED loads
    /\ UNCHANGED <<run, dirExists, dirFiles, ensureLog, fetches, faulted>>
    /\ UNCHANGED exchangeVars

\* main: app.run binds the socket and starts to accept requests
AppRun ==
    /\ pc = "ready"
    /\ pc' = "serving"
    /\ UNCHANGED <<run, dirExists, dirFiles, ensureLog, fetches, loads, faulted>>
    /\ UNCHANGED exchangeVars

\* --------------------------------------------------------------- handlers
\* a health check that reports an earlier fault
healthcheck_degraded ==
    /\ pc = "serving"
    /\ op = "none"
    /\ op' = "health"
    /\ status' = (IF faulted THEN 503 ELSE 200)
    /\ body' = <<[status |-> (IF faulted THEN "error" ELSE "ok"),
                  model_repo |-> MODEL_REPO]>>
    /\ UNCHANGED <<request, call, faulted>>
    /\ UNCHANGED processVars

healthcheck ==
    /\ pc = "serving"
    /\ op = "none"
    /\ op' = "health"
    /\ status' = 200
    /\ body' = <<[status |-> "ok", model_repo |-> MODEL_REPO]>>
    /\ UNCHANGED <<request, call, faulted>>
    /\ UNCHANGED processVars

list_models ==
    /\ pc = "serving"
    /\ op = "none"
    /\ op' = "models"
    /\ status' = 200
    /\ body' = <<[object |-> "list",
                  data |-> <<[id |-> MODEL_REPO, object |-> "model",
                               owned_by |-> "local"]>>]>>
    /\ UNCHANGED <<request, call, faulted>>
    /\ UNCHANGED processVars

\* int(x) and float(x) raise on a string that is not a numeral
\* payload[key] in place of payload.get(key, default): a missing key raises
Converts_key_required(payload, key) ==
    key \in DOMAIN payload /\ payload[key].t = "num"

Converts(payload, key) == key \notin DOMAIN payload \/ payload[key].t = "num"

NumberOf(payload, key, default) ==
    IF key \in DOMAIN payload THEN payload[key].v ELSE default

\* a handler that tries generate() a second time before it gives up
RuntimeFault_retry(stage, prompt, args) ==
    [status |-> 500, body |-> <<>>,
     call |-> [tokCalls |-> 1,
               genCalls |-> (IF stage = "generate" THEN 2 ELSE 0),
               prompt |-> <<prompt>>,
               args |-> (IF stage = "generate" THEN <<args>> ELSE <<>>),
               decoded |-> <<>>]]

\* The tokenizer or generate() raised: nothing catches the exception, and the
\* framework answers 500 with no JSON body.
RuntimeFault(stage, prompt, args) ==
    [status |-> 500, body |-> <<>>,
     call |-> [tokCalls |-> 1,
               genCalls |-> (IF stage = "generate" THEN 1 ELSE 0),
               prompt |-> <<prompt>>,
               args |-> (IF stage = "generate" THEN <<args>> ELSE <<>>),
               decoded |-> <<>>]]

\* The response of chat_completions to request req when the runtime behaves
\* as rt: the status, the body and the calls made on the runtime.
ChatResult(req, rt) ==
    IF req.kind = "malformed"
    THEN [status |-> 400, body |-> <<>>, call |-> NoCall]
    ELSE IF \/ req.kind # "object"
            \/ ~Converts(req.payload, "max_tokens")
            \/ ~Converts(req.payload, "temperature")
            \/ ~Converts(req.payload, "top_p")
    THEN [status |-> 500, body |-> <<>>, call |-> NoCall]
    ELSE
    LET payload == req.payload
        messages == DictGet(payload, "messages", <<>>)
        max_tokens == MaxNewTokensArg(NumberOf(payload, "max_tokens", DEFAULT_MAX_TOKENS))
        temperature == NumberOf(payload, "temperature", DEFAULT_TEMPERATURE)
        top_p == NumberOf(payload, "top_p", DEFAULT_TOP_P)
        prompt == build_prompt(messages)
        args == [prompt |-> prompt, do_sample |-> (temperature > 0),
                 temperature |-> temperature, top_p |-> top_p,
                 max_new_tokens |-> max_tokens]
        decoded == Decoded(rt, prompt)
        completion == ExtractCompletion(decoded, prompt)
    IN  CASE rt.fault # "none" -> RuntimeFault(rt.fault, prompt, args)
          [] OTHER ->
               [status |-> 200,
                body |-> <<[object |-> "chat.completion",
                            model |-> MODEL_REPO,
                            choices |-> <<[index |-> 0,
                                           message |-> [role |-> ASSISTANT_ROLE,
                                                        content |-> completion],
                                           finish_reason |-> "stop"]>>,
                            usage |-> Usage(rt.n, rt.n + rt.new)]>>,
                call |-> [tokCalls |-> 1, genCalls |-> 1, prompt |-> <<prompt>>,
                          args |-> <<args>>, decoded |-> <<decoded>>]]

\* a handler that loads tokenizer and model again for each request
chat_completions_reload ==
    /\ pc = "serving"
    /\ op = "none"
    /\ \E req \in Requests, rt \in RuntimeOutcomes :
          LET res == ChatResult(req, rt)
          IN  /\ op' = "chat"
              /\ request' = req
              /\ status' = res.status
              /\ body' = res.body
              /\ call' = res.call
              /\ faulted' = (faulted \/ res.status = 500)
    /\ loads' = loads + 1
    /\ UNCHANGED <<pc, run, dirExists, dirFiles, ensureLog, fetches>>

chat_completions ==
    /\ pc = "serving"
    /\ op = "none"
    /\ \E req \in Requests, rt \in RuntimeOutcomes :
          LET res == ChatResult(req, rt)
          IN  /\ op' = "chat"
              /\ request' = req
              /\ status' = res.status
              /\ body' = res.body
              /\ call' = res.call
              /\ faulted' = (faulted \/ res.status = 500)
    /\ UNCHANGED processVars

\* the server writes the response in flight to the client
SendResponse ==
    /\ pc = "serving"
    /\ op # "none"
    /\ Clear
    /\ UNCHANGED faulted
    /\ UNCHANGED processVars

\* shutdown_handler, or the default action of the signal before it is set
Shutdown ==
    /\ pc \in {"start", "resolved", "ready", "serving"}
    /\ pc' = "exited"
    /\ UNCHANGED <<run, dirExists, dirFiles, ensureLog, fetches, loads, faulted>>
    /\ UNCHANGED exchangeVars

\* the process is started again, with the same MODEL_CACHE_DIR
Restart ==
    /\ pc \in {"dead", "exited"}
    /\ run < MaxRuns
    /\ run' = run + 1
    /\ pc' = "start"
    /\ fetches' = 0
    /\ loads' = 0
    /\ faulted' = FALSE
    /\ Clear
    /\ UNCHANGED <<dirExists, dirFiles, ensureLog>>

Next ==
    \/ EnsureModel
    \/ LoadRuntime
    \/ AppRun
    \/ healthcheck
    \/ list_models
    \/ chat_completions
    \/ SendResponse
    \/ Shutdown
    \/ Restart

Spec == Init /\ [][Next]_vars

\* ================================================================== claims
\* Helpers of the claims: they state what a response should be without
\* using the operators that compute it.

\* str.split("\n")
RECURSIVE SplitLines(_)
SplitLines(s) ==
    IF \A i \in 1..Len(s) : s[i] # NEWLINE THEN <<s>>
    ELSE LET i == CHOOSE i \in 1..Len(s) :
                     s[i] = NEWLINE /\ \A j \in 1..(i - 1) : s[j] # NEWLINE
         IN  <<SubSeq(s, 1, i - 1)>> \o SplitLines(SubSeq(s, i + 1, Len(s)))

RECURSIVE Flatten(_)
Flatten(ss) == IF Len(ss) = 0 THEN <<>> ELSE ss[1] \o Flatten(Tail(ss))

HasNewline(s) == \E i \in 1..Len(s) : s[i] = NEWLINE

\* r is s without its leading and trailing whitespace
IsTrimOf(r, s) ==
    \E i \in 1..(Len(s) + 1), j \in 0..Len(s) :
        /\ r = SubSeq(s, i, j)
        /\ \A k \in 1..Len(s) : (k < i \/ k > j) => s[k] \in Whitespace
        /\ Len(r) > 0 => (r[1] \notin Whitespace /\ r[Len(r)] \notin Whitespace)

Blank(s) == \A i \in 1..Len(s) : s[i] \in Whitespace

ChatAnswered == op = "chat" /\ status = 200
PromptBuilt == op = "chat" /\ Len(call.prompt) = 1
SentMessages ==
    IF "messages" \in DOMAIN request.payload THEN request.payload["messages"] ELSE <<>>
RoleOf(m) == IF "role" \in DOMAIN m THEN m["role"] ELSE <<"u", "s", "e", "r">>
ContentOf(m) == IF "content" \in DOMAIN m THEN m["content"] ELSE <<>>
LineOf(m) == RoleOf(m) \o <<":", " ">> \o ContentOf(m)
MarkerLine == <<"a", "s", "s", "i", "s", "t", "a", "n", "t", ":">>

C2_OneLinePerMessage ==
    PromptBuilt =>
        LET lines == SplitLines(call.prompt[1])
            msgs == SentMessages
        IN  /\ Len(lines) = Len(msgs) + 1
            /\ lines[Len(lines)] = MarkerLine
            /\ \A i \in 1..Len(msgs) : lines[i] = LineOf(msgs[i])

\* C2 (amended): the last line of the prompt is exactly "assistant:", with no
\* newline after it; before it come the texts "{role}: {content}" of the
\* messages, in order, each on as many lines as it has itself; when no role
\* and no content holds a newline that is exactly one line per message.
C2_PromptLayout ==
    PromptBuilt =>
        LET prompt == call.prompt[1]
            lines == SplitLines(prompt)
            msgs == SentMessages
        IN  /\ lines[Len(lines)] = MarkerLine
            /\ prompt[Len(prompt)] # NEWLINE
            /\ lines = Flatten([i \in 1..Len(msgs) |-> SplitLines(LineOf(msgs[i]))])
                          \o <<MarkerLine>>
            /\ (\A i \in 1..Len(msgs) : ~HasNewline(LineOf(msgs[i])))
                 => /\ Len(lines) = Len(msgs) + 1
                    /\ \A i \in 1..Len(msgs) : lines[i] = LineOf(msgs[i])
            /\ Len(msgs) = 0 => prompt = MarkerLine

\* two different single-line messages were rendered, in their order
C2_Witness ==
    /\ PromptBuilt
    /\ Len(SentMessages) = 2
    /\ SentMessages[1] # SentMessages[2]
    /\ \A i \in 1..2 : ~HasNewline(LineOf(SentMessages[i]))
    /\ Len(SplitLines(call.prompt[1])) = 3

\* C3: the max_new_tokens handed to generate() is max(16, requested
\* max_tokens), with 128 for an absent max_tokens; a request below 16 is
\* generated with 16.
C3_MaxTokensFloor ==
    (op = "chat" /\ call.genCalls > 0) =>
        LET p == request.payload
            given == call.args[1].max_new_tokens
        IN  /\ "max_tokens" \notin DOMAIN p => given = 128
            /\ ("max_tokens" \in DOMAIN p /\ p["max_tokens"].v < 16) => given = 16
            /\ ("max_tokens" \in DOMAIN p /\ p["max_tokens"].v >= 16)
                  => given = p["max_tokens"].v

\* generate() was called for a request with max_tokens 1
C3_Witness ==
    /\ op = "chat"
    /\ call.genCalls = 1
    /\ "max_tokens" \in DOMAIN request.payload
    /\ request.payload["max_tokens"] = Num(1)
    /\ call.args[1].max_new_tokens = 16

\* C4: when ensure_model has returned and is called again for the same
\* directory, the second call fetches nothing, leaves the directory as it
\* was and returns the same directory; the two calls fetch at most once.
C4_SecondCallIsNoOp ==
    \A i \in 1..(Len(ensureLog) - 1) :
        (ensureLog[i].returned /\ ensureLog[i + 1].dir = ensureLog[i].dir) =>
            /\ ~ensureLog[i + 1].fetched
            /\ ~ensureLog[i + 1].changed
            /\ ensureLog[i + 1].returned
            /\ ensureLog[i + 1].result = ensureLog[i].result

\* the first call downloaded the model and a second call was made
C4_Witness ==
    /\ Len(ensureLog) = 2
    /\ ensureLog[1].fetched
    /\ ensureLog[1].returned
    /\ ensureLog[2].returned

SomeFieldMissing ==
    \E k \in {"messages", "max_tokens", "temperature", "top_p"} :
        k \notin DOMAIN request.payload
PresentFieldsAreNumbers ==
    \A k \in {"max_tokens", "temperature", "top_p"} :
        k \in DOMAIN request.payload => request.payload[k].t = "num"

C7_HealthAlwaysOk ==
    op = "health" =>
        /\ status = 200
        /\ body = <<[status |-> "ok", model_repo |-> "sshleifer/tiny-gpt2"]>>

\* a health check after a chat-completion request that ended in a fault
C7_Witness == op = "health" /\ faulted /\ status = 200

\* C8: a request is answered only after the cache was resolved and tokenizer
\* and model were loaded, once; while the process serves, no step loads the
\* runtime again or writes the cache directory.
C8_InitializedOnceBeforeTraffic ==
    /\ [](op # "none" =>
            /\ pc \in {"serving", "exited"}
            /\ loads = 1
            /\ fetches <= 1
            /\ Len(ensureLog) >= 1
            /\ ensureLog[Len(ensureLog)].returned)
    /\ [][pc = "serving" =>
            /\ loads' = loads
            /\ fetches' = fetches
            /\ dirExists' = dirExists
            /\ dirFiles' = dirFiles
            /\ ensureLog' = ensureLog]_vars

\* a chat completion was answered in a run that downloaded the model
C8_Witness == op = "chat" /\ status = 200 /\ fetches = 1 /\ loads = 1

C10_FaultsNotRetried ==
    /\ [](op = "chat" =>
            /\ call.tokCalls <= 1
            /\ call.genCalls <= 1
            /\ (call.tokCalls = 1 /\ Len(call.decoded) = 0) =>
                  (status = 500 /\ body = <<>>)
            /\ (faulted /\ Len(call.decoded) = 1) =>
                  (status = 200 /\ Len(body) = 1))
    /\ [][(op = "none" /\ op' = "chat" /\ status' = 500) =>
            (pc' = pc /\ run' = run /\ loads' = loads /\ fetches' = fetches
             /\ dirFiles' = dirFiles /\ dirExists' = dirExists
             /\ ensureLog' = ensureLog)]_vars

\* generate() raised, after one call of the tokenizer and one of generate()
C10_Witness ==
    /\ op = "chat"
    /\ status = 500
    /\ call.tokCalls = 1
    /\ call.genCalls = 1
    /\ Len(call.decoded) = 0
====
